---------------------------- MODULE Spec2Model ----------------------------
(***************************************************************************)
(* GithubRepoExtractor (src/app.py): a Tk window whose Extract button      *)
(* clones a repository into a temporary directory, renders its file tree,  *)
(* wraps every kept file in a <path>...</path> block, removes the          *)
(* directory and shows the document; Copy and Clear act on the text area.  *)
(*                                                                         *)
(* Text is modelled as TLA+ strings, character by character.  The box      *)
(* drawing characters of build_file_tree are not ASCII, so each is written *)
(* with an ASCII stand-in of the same length: U+251C as "+", U+2514 as     *)
(* "L", U+2500 as "-", U+2502 as "|".                                      *)
(***************************************************************************)
EXTENDS Integers, Sequences, FiniteSets, TLC

VARIABLES
    entry_repo,     \* contents of the URL entry widget
    text_output,    \* contents of the text area, without Tk's final newline
    clipboard,      \* the system clipboard (pyperclip)
    dialog,         \* the message box on screen, or NoDialog
    pc,             \* position of the interface thread
    temp_exists,    \* whether the directory made by mkdtemp is on disk
    fs,             \* entries of the temporary directory, in on-disk order
    clone_rc,       \* whether git clone exited with zero in this call, or "none"
    output_parts,   \* extract_repo_contents: output_parts
    all_files,      \* extract_repo_contents: all_files
    idx,            \* extract_repo_contents: files already formatted
    exc,            \* the exception in flight in extract_repo_contents
    final_output,   \* extract_repo_contents: final_output
    reads,          \* what each read of format_file_content met, in order
    rm_calls,       \* calls of shutil.rmtree in this call
    steps           \* the steps this call has finished, in order

vars == <<entry_repo, text_output, clipboard, dialog, pc, temp_exists, fs,
          clone_rc, output_parts, all_files, idx, exc, final_output,
          reads, rm_calls, steps>>

-----------------------------------------------------------------------------
(* Bounds of the model. *)

\* most entries (files and directories) in a generated repository
MaxEntries == 3

-----------------------------------------------------------------------------
(* Strings. *)

Chr(s, i) == SubSeq(s, i, i)

Upper == "ABCDEFGHIJKLMNOPQRSTUVWXYZ"
Lower == "abcdefghijklmnopqrstuvwxyz"

LowerOf == [c \in {Chr(Upper, i) : i \in 1..Len(Upper)} |->
               Chr(Lower, CHOOSE i \in 1..Len(Upper) : Chr(Upper, i) = c)]

\* str.lower() on one character
LowerChar(c) == IF c \in DOMAIN LowerOf THEN LowerOf[c] ELSE c

RECURSIVE lower(_)
lower(s) == IF s = "" THEN "" ELSE LowerChar(Head(s)) \o lower(Tail(s))

startswith(s, p) == Len(s) >= Len(p) /\ SubSeq(s, 1, Len(p)) = p

Whitespace == {" ", "\t", "\n"}

RECURSIVE lstrip(_)
lstrip(s) == IF s # "" /\ Head(s) \in Whitespace THEN lstrip(Tail(s)) ELSE s

RECURSIVE rstrip(_)
rstrip(s) ==
    IF s # "" /\ Chr(s, Len(s)) \in Whitespace
    THEN rstrip(SubSeq(s, 1, Len(s) - 1))
    ELSE s

strip(s) == rstrip(lstrip(s))

RECURSIVE Repeat(_, _)
Repeat(s, n) == IF n = 0 THEN "" ELSE s \o Repeat(s, n - 1)

RECURSIVE Join(_, _)
Join(sep, parts) ==
    IF parts = <<>> THEN ""
    ELSE IF Len(parts) = 1 THEN parts[1]
    ELSE parts[1] \o sep \o Join(sep, Tail(parts))

\* code point order of the characters that occur in names
CodePoints == ".ABCDEFGHIJKLMNOPQRSTUVWXYZ_abcdefghijklmnopqrstuvwxyz"

OrdOf == [c \in {Chr(CodePoints, i) : i \in 1..Len(CodePoints)} |->
             CHOOSE i \in 1..Len(CodePoints) : Chr(CodePoints, i) = c]

Ord(c) == OrdOf[c]

\* a < b as Python compares str
RECURSIVE StrLess(_, _)
StrLess(a, b) ==
    IF b = "" THEN FALSE
    ELSE IF a = "" THEN TRUE
    ELSE IF Head(a) = Head(b) THEN StrLess(Tail(a), Tail(b))
    ELSE Ord(Head(a)) < Ord(Head(b))

\* sorted(items)
RECURSIVE sorted(_)
sorted(items) ==
    IF items = <<>> THEN <<>>
    ELSE LET m == CHOOSE i \in 1..Len(items) :
                    \A j \in 1..Len(items) : ~StrLess(items[j], items[i])
         IN  <<items[m]>> \o
             sorted(SubSeq(items, 1, m - 1) \o SubSeq(items, m + 1, Len(items)))

\* os.path.join(a, b) for a relative b
join(a, b) == a \o "/" \o b

\* os.path.relpath(path, start) for a path beneath start
relpath(path, start) == SubSeq(path, Len(start) + 2, Len(path))

-----------------------------------------------------------------------------
(* The file system beneath the temporary directory.  An entry is           *)
(* [dir, name, kind]; the order of fs is the order the directory is        *)
(* stored in, which os.listdir and os.walk return as it is.                *)

\* the directory tempfile.mkdtemp() returns
TempDir == "/tmp/tmpx"

\* os.listdir(directory) of a directory that exists
listdir(directory) ==
    LET In(e) == e.dir = directory
        es == SelectSeq(fs, In)
    IN  [i \in 1..Len(es) |-> es[i].name]

isdir(path) ==
    \/ path = TempDir /\ temp_exists
    \/ \E i \in 1..Len(fs) : join(fs[i].dir, fs[i].name) = path /\ fs[i].kind = "dir"

-----------------------------------------------------------------------------
(* get_all_files *)

\* line 32: the test of the list comprehension that prunes dirs
walk_descends(d) == d # ".git"

\* skips_file comparing the name as it is, without lower()
skips_file_as_spelled(file) ==
    \/ file = ".env"
    \/ startswith(file, "readme.md")
    \/ startswith(file, "requirements.txt")
    \/ startswith(file, ".")

\* lines 35-40: whether the loop body reaches `continue` for this file name
skips_file(file) ==
    \/ file = ".env"
    \/ startswith(lower(file), "readme.md")
    \/ startswith(lower(file), "requirements.txt")
    \/ startswith(lower(file), ".")

\* os.walk(top), top-down, with lines 32-41 as the body of the loop: the
\* files of this directory that are kept, then the walk of each directory
\* left in dirs
RECURSIVE walk(_)
RECURSIVE walk_dirs(_, _, _)
walk(root) ==
    LET names == listdir(root)
        IsDir(n) == isdir(join(root, n))
        IsFile(n) == ~isdir(join(root, n))
        Kept(file) == ~skips_file(file)
        dirs  == SelectSeq(SelectSeq(names, IsDir), walk_descends)
        files == SelectSeq(SelectSeq(names, IsFile), Kept)
    IN  [i \in 1..Len(files) |-> join(root, files[i])] \o walk_dirs(root, dirs, 1)
walk_dirs(root, dirs, i) ==
    IF i > Len(dirs) THEN <<>>
    ELSE walk(join(root, dirs[i])) \o walk_dirs(root, dirs, i + 1)

get_all_files(directory) == walk(directory)

-----------------------------------------------------------------------------
(* build_file_tree *)

TEE    == "+-- "
ELBOW  == "L-- "
PIPE   == "|   "
BLANK  == "    "

\* tree_lists filtering .git alone
tree_lists_git_only(item) == item # ".git"

\* line 68: the test of the list comprehension that filters items
tree_lists(item) == item \notin {".git", ".env"}

RECURSIVE build_file_tree(_, _)
RECURSIVE tree_loop(_, _, _, _)
build_file_tree(directory, prefix) ==
    IF ~isdir(directory) THEN ""
    ELSE tree_loop(directory, prefix,
                   SelectSeq(sorted(listdir(directory)), tree_lists), 1)
\* lines 69-75: the iterations of the for loop from the i-th item on
tree_loop(directory, prefix, items, i) ==
    IF i > Len(items) THEN ""
    ELSE LET item      == items[i]
             full_path == join(directory, item)
             last      == i = Len(items)
             connector == IF last THEN ELBOW ELSE TEE
             extension == IF last THEN BLANK ELSE PIPE
         IN  prefix \o connector \o item \o "\n"
             \o (IF isdir(full_path)
                 THEN build_file_tree(full_path, prefix \o extension)
                 ELSE "")
             \o tree_loop(directory, prefix, items, i + 1)

-----------------------------------------------------------------------------
(* format_file_content *)

\* what open(file_path, "r", encoding="utf-8") and f.read() do: the text of
\* the file, or an exception with a message
ReadOk(t) == [ok |-> TRUE, text |-> t, msg |-> ""]
ReadFails(m) == [ok |-> FALSE, text |-> "", msg |-> m]

DecodeError == "'utf-8' codec can't decode byte 0xff in position 0: invalid start byte"

ReadOutcomes == {ReadOk("hello"), ReadFails(DecodeError)}

\* lines 49-53: content
read_content(rd) == IF rd.ok THEN rd.text ELSE "Error reading file: " \o rd.msg

\* format_file_content naming the block by file_path, not by relative_path
format_file_content_absolute(file_path, repo_root, rd) ==
    "<" \o file_path \o ">\n" \o read_content(rd) \o "\n</" \o file_path \o ">"

format_file_content(file_path, repo_root, rd) ==
    LET content       == read_content(rd)
        relative_path == relpath(file_path, repo_root)
    IN  "<" \o relative_path \o ">\n" \o content \o "\n</" \o relative_path \o ">"

-----------------------------------------------------------------------------
(* Repositories. *)

Ent(d, n, k) == [dir |-> d, name |-> n, kind |-> k]

\* what git clone leaves in the temporary directory, for the repositories
\* the model clones
ScenarioRepo ==
    << Ent(TempDir, "README.md", "file"),
       Ent(TempDir, ".git", "dir"),
       Ent(join(TempDir, ".git"), "config", "file"),
       Ent(TempDir, ".env", "file"),
       Ent(TempDir, "a.py", "file") >>

SrcRepo ==
    << Ent(TempDir, ".git", "dir"),
       Ent(TempDir, "src", "dir"),
       Ent(join(TempDir, "src"), "a.txt", "file") >>

EmptyRepo == << Ent(TempDir, ".git", "dir") >>

RemoteRepos == {ScenarioRepo, SrcRepo, EmptyRepo}

\* names of the generated directory trees
FileNames == {".env", ".ENV", "ReadMe.md.bak", "Requirements.txt", "readme", "a.py"}
DirNames == {".git", ".env", "src"}

DirsOf(t) ==
    {TempDir} \cup {join(t[i].dir, t[i].name) : i \in {j \in 1..Len(t) : t[j].kind = "dir"}}

Taken(t, d, n) == \E i \in 1..Len(t) : t[i].dir = d /\ t[i].name = n

Grow(t) ==
    {Append(t, Ent(x[1], x[2], "file")) :
        x \in {y \in DirsOf(t) \X FileNames : ~Taken(t, y[1], y[2])}}
    \cup
    {Append(t, Ent(x[1], x[2], "dir")) :
        x \in {y \in DirsOf(t) \X DirNames : ~Taken(t, y[1], y[2])}}

\* every directory tree of at most n entries, in every on-disk order
RECURSIVE TreesUpTo(_)
TreesUpTo(n) ==
    IF n = 0 THEN {<<>>}
    ELSE LET T == TreesUpTo(n - 1) IN T \cup UNION {Grow(t) : t \in T}

-----------------------------------------------------------------------------
(* The window. *)

NoDialog == [kind |-> "none", title |-> "", message |-> ""]
showerror(title, message) == [kind |-> "error", title |-> title, message |-> message]
showinfo(title, message) == [kind |-> "info", title |-> title, message |-> message]

\* line 168: the text the entry starts with
DefaultUrl == "https://github.com/username/repository.git"

\* what the user may put in the entry, and type into the text area
UrlInputs == {"", " \t", " https://github.com/o/r.git\n", DefaultUrl}
TypedTexts == {"X"}

Placeholder == "Processing repository. Please wait...\n"
EmptyUrlMessage == "Please enter a valid GitHub repository URL."
CloneError ==
    "Error cloning repository. Please ensure the URL is correct and that you have the necessary permissions."
GitMissing == "[Errno 2] No such file or directory: 'git'"
CopiedMessage == "Text has been copied to the clipboard!"

\* line 93: "-" * 40
SeparatorWidth == 40

NoException == [raised |-> FALSE, type |-> "", msg |-> ""]
Raised(type, msg) == [raised |-> TRUE, type |-> type, msg |-> msg]

\* text_output.get(1.0, tk.END): a Tk text widget ends with a newline of its
\* own, and the range up to END takes it in
text_get(content) == content \o "\n"

\* url_missing without the strip() of line 111
url_missing_unstripped(entry) == entry = ""

\* line 112: `if not repo_url`, repo_url being entry_repo.get().strip()
url_missing(entry) == strip(entry) = ""

\* the locals of on_extract and extract_repo_contents, gone on return
LocalsGone ==
    /\ clone_rc' = "none"
    /\ output_parts' = <<>>
    /\ all_files' = <<>>
    /\ idx' = 0
    /\ exc' = NoException
    /\ final_output' = ""
    /\ reads' = <<>>
    /\ rm_calls' = 0
    /\ steps' = <<>>

locals == <<clone_rc, output_parts, all_files, idx, exc, final_output, reads,
            rm_calls, steps>>

Init ==
    /\ entry_repo = DefaultUrl
    /\ text_output = ""
    /\ clipboard = ""
    /\ dialog = NoDialog
    /\ pc = "idle"
    /\ temp_exists = FALSE
    /\ fs = <<>>
    /\ clone_rc = "none"
    /\ output_parts = <<>>
    /\ all_files = <<>>
    /\ idx = 0
    /\ exc = NoException
    /\ final_output = ""
    /\ reads = <<>>
    /\ rm_calls = 0
    /\ steps = <<>>

\* the main loop waits for an event, no message box open
Waiting == pc = "idle" /\ dialog = NoDialog

\* the user edits the entry
edit_url ==
    /\ Waiting
    /\ \E u \in UrlInputs : entry_repo' = u
    /\ UNCHANGED <<text_output, clipboard, dialog, pc, temp_exists, fs, locals>>

\* the user types into the text area
type_text ==
    /\ Waiting
    /\ \E t \in TypedTexts : text_output' = t
    /\ UNCHANGED <<entry_repo, clipboard, dialog, pc, temp_exists, fs, locals>>

\* the user closes the message box; showerror and showinfo return
dismiss ==
    /\ dialog # NoDialog
    /\ dialog' = NoDialog
    /\ IF pc = "except_dialog"
       THEN pc' = "idle" /\ LocalsGone
       ELSE UNCHANGED <<pc, locals>>
    /\ UNCHANGED <<entry_repo, text_output, clipboard, temp_exists, fs>>

\* on_extract, lines 111-118: up to root.update()
on_extract ==
    /\ Waiting
    /\ IF url_missing(entry_repo)
       THEN /\ dialog' = showerror("Error", EmptyUrlMessage)
            /\ UNCHANGED <<text_output, pc>>
       ELSE /\ text_output' = "" \o Placeholder
            /\ pc' = "extract"
            /\ UNCHANGED dialog
    /\ UNCHANGED <<entry_repo, clipboard, temp_exists, fs, locals>>

\* on_copy
on_copy ==
    /\ Waiting
    /\ clipboard' = text_get(text_output)
    /\ dialog' = showinfo("Copied", CopiedMessage)
    /\ UNCHANGED <<entry_repo, text_output, pc, temp_exists, fs, locals>>

\* on_clear
on_clear ==
    /\ Waiting
    /\ text_output' = ""
    /\ UNCHANGED <<entry_repo, clipboard, dialog, pc, temp_exists, fs, locals>>

-----------------------------------------------------------------------------
(* extract_repo_contents, called from line 120 while the interface thread  *)
(* is blocked.  Each step of the call is an action, since the order of the *)
(* steps and the state between them is what is specified.                  *)

ui == <<entry_repo, text_output, clipboard, dialog>>

\* lines 83-84: tempfile.mkdtemp() and the empty output_parts
mkdtemp ==
    /\ pc = "extract"
    /\ temp_exists' = TRUE
    /\ fs' = <<>>
    /\ output_parts' = <<>>
    /\ steps' = <<"mkdtemp">>
    /\ pc' = "clone"
    /\ UNCHANGED <<ui, clone_rc, all_files, idx, exc, final_output, reads, rm_calls>>

\* clone_github_repo running git without check=True: a non-zero exit raises
\* nothing and the call goes on
clone_github_repo_unchecked ==
    /\ pc = "clone"
    /\ \/ /\ \E repo \in RemoteRepos : fs' = repo
          /\ clone_rc' = "zero"
          /\ UNCHANGED exc
       \/ /\ clone_rc' = "nonzero"
          /\ UNCHANGED <<fs, exc>>
    /\ steps' = Append(steps, "clone")
    /\ pc' = "tree"
    /\ UNCHANGED <<ui, temp_exists, output_parts, all_files, idx, final_output,
                   reads, rm_calls>>

\* line 87 and clone_github_repo: git clone exits 0 and leaves a repository,
\* or exits non-zero (CalledProcessError, raised again as Exception), or
\* there is no git to run (FileNotFoundError, which line 20 does not catch)
clone_github_repo ==
    /\ pc = "clone"
    /\ \/ /\ \E repo \in RemoteRepos : fs' = repo
          /\ clone_rc' = "zero"
          /\ steps' = Append(steps, "clone")
          /\ pc' = "tree"
          /\ UNCHANGED exc
       \/ /\ clone_rc' = "nonzero"
          /\ exc' = Raised("Exception", CloneError)
          /\ pc' = "finally"
          /\ UNCHANGED <<fs, steps>>
       \/ /\ exc' = Raised("FileNotFoundError", GitMissing)
          /\ pc' = "finally"
          /\ UNCHANGED <<fs, steps, clone_rc>>
    /\ UNCHANGED <<ui, temp_exists, output_parts, all_files, idx, final_output,
                   reads, rm_calls>>

\* lines 90-93: the tree and the three parts it adds; building the string
\* may run out of memory (MemoryError, whose message is empty), which
\* nothing in build_file_tree catches
render_tree ==
    /\ pc = "tree"
    /\ \/ /\ output_parts' = output_parts \o
                << "File Tree:", build_file_tree(TempDir, ""),
                   Repeat("-", SeparatorWidth) >>
          /\ steps' = Append(steps, "tree")
          /\ pc' = "enumerate"
          /\ UNCHANGED exc
       \/ /\ exc' = Raised("MemoryError", "")
          /\ pc' = "finally"
          /\ UNCHANGED <<output_parts, steps>>
    /\ UNCHANGED <<ui, temp_exists, fs, clone_rc, all_files, idx, final_output,
                   reads, rm_calls>>

\* enumerate_files followed at once by the rmtree, before the loop
enumerate_files_then_rmtree ==
    /\ pc = "enumerate"
    /\ all_files' = get_all_files(TempDir)
    /\ idx' = 0
    /\ temp_exists' = FALSE
    /\ fs' = <<>>
    /\ rm_calls' = rm_calls + 1
    /\ steps' = steps \o <<"enumerate", "rmtree">>
    /\ pc' = "format"
    /\ UNCHANGED <<ui, clone_rc, output_parts, exc, final_output, reads>>

\* line 96
enumerate_files ==
    /\ pc = "enumerate"
    /\ all_files' = get_all_files(TempDir)
    /\ idx' = 0
    /\ steps' = Append(steps, "enumerate")
    /\ pc' = "format"
    /\ UNCHANGED <<ui, temp_exists, fs, clone_rc, output_parts, exc, final_output,
                   reads, rm_calls>>

\* lines 97-99: one iteration of the loop, or its end
format_files ==
    /\ pc = "format"
    /\ \/ /\ idx < Len(all_files)
          /\ \E rd \in ReadOutcomes :
                /\ output_parts' =
                      Append(output_parts,
                             format_file_content(all_files[idx + 1], TempDir, rd))
                /\ reads' = Append(reads, rd)
          /\ idx' = idx + 1
          /\ steps' = Append(steps, "format")
          /\ UNCHANGED pc
       \/ /\ idx >= Len(all_files)
          /\ pc' = "finally"
          /\ UNCHANGED <<output_parts, reads, idx, steps>>
    /\ UNCHANGED <<ui, temp_exists, fs, clone_rc, all_files, exc, final_output,
                   rm_calls>>

\* the rmtree as the last statement of the try body, not in a finally
\* clause: an exception passes it by
cleanup_in_try_body ==
    /\ pc = "finally"
    /\ temp_exists
    /\ IF exc.raised
       THEN pc' = "raise" /\ UNCHANGED <<temp_exists, fs, rm_calls, steps>>
       ELSE /\ temp_exists' = FALSE
            /\ fs' = <<>>
            /\ rm_calls' = rm_calls + 1
            /\ steps' = Append(steps, "rmtree")
            /\ pc' = "join"
    /\ UNCHANGED <<ui, clone_rc, output_parts, all_files, idx, exc, final_output, reads>>

\* lines 100-102: the finally clause, entered from the end of the try body
\* and from every exception in it; then the exception, if any, goes on to
\* the caller
cleanup ==
    /\ pc = "finally"
    /\ temp_exists
    /\ temp_exists' = FALSE
    /\ fs' = <<>>
    /\ rm_calls' = rm_calls + 1
    /\ steps' = Append(steps, "rmtree")
    /\ pc' = IF exc.raised THEN "raise" ELSE "join"
    /\ UNCHANGED <<ui, clone_rc, output_parts, all_files, idx, exc, final_output, reads>>

\* lines 103-104
join_parts ==
    /\ pc = "join"
    /\ final_output' = Join("\n", output_parts)
    /\ steps' = Append(steps, "join")
    /\ pc' = "return"
    /\ UNCHANGED <<ui, temp_exists, fs, clone_rc, output_parts, all_files, idx, exc,
                   reads, rm_calls>>

\* on_extract, lines 120-122: the call returned
on_extract_done ==
    /\ pc = "return"
    /\ text_output' = "" \o final_output
    /\ pc' = "idle"
    /\ LocalsGone
    /\ UNCHANGED <<entry_repo, clipboard, dialog, temp_exists, fs>>

\* on_extract_failed without the delete of line 124
on_extract_failed_no_delete ==
    /\ pc = "raise"
    /\ text_output' = text_output \o ("An error occurred:\n" \o exc.msg)
    /\ dialog' = showerror("Error", "An error occurred: " \o exc.msg)
    /\ pc' = "except_dialog"
    /\ UNCHANGED <<entry_repo, clipboard, temp_exists, fs, locals>>

\* on_extract, lines 123-126: the call raised an Exception; showerror then
\* waits for the user
on_extract_failed ==
    /\ pc = "raise"
    /\ text_output' = "" \o ("An error occurred:\n" \o exc.msg)
    /\ dialog' = showerror("Error", "An error occurred: " \o exc.msg)
    /\ pc' = "except_dialog"
    /\ UNCHANGED <<entry_repo, clipboard, temp_exists, fs, locals>>

Next ==
    \/ edit_url
    \/ type_text
    \/ dismiss
    \/ on_extract
    \/ on_copy
    \/ on_clear
    \/ mkdtemp
    \/ clone_github_repo
    \/ render_tree
    \/ enumerate_files
    \/ format_files
    \/ cleanup
    \/ join_parts
    \/ on_extract_done
    \/ on_extract_failed

Spec == Init /\ [][Next]_vars

(* The body of extract_repo_contents from line 90 on, for every generated  *)
(* directory tree as what the clone left.                                  *)
InitFS ==
    /\ entry_repo = DefaultUrl
    /\ text_output = Placeholder
    /\ clipboard = ""
    /\ dialog = NoDialog
    /\ pc = "tree"
    /\ temp_exists = TRUE
    /\ fs \in TreesUpTo(MaxEntries) \cup RemoteRepos
    /\ clone_rc = "zero"
    /\ output_parts = <<>>
    /\ all_files = <<>>
    /\ idx = 0
    /\ exc = NoException
    /\ final_output = ""
    /\ reads = <<>>
    /\ rm_calls = 0
    /\ steps = <<"mkdtemp", "clone">>

NextFS ==
    \/ render_tree
    \/ enumerate_files
    \/ format_files
    \/ cleanup
    \/ join_parts

SpecFS == InitFS /\ [][NextFS]_vars

-----------------------------------------------------------------------------
(* Reading the documents back, for the properties below. *)

Contains(s, sub) ==
    \E i \in 1..(Len(s) - Len(sub) + 1) : SubSeq(s, i, i + Len(sub) - 1) = sub

Blank(s) == \A i \in 1..Len(s) : Chr(s, i) \in Whitespace

Count(seq, x) == Cardinality({i \in 1..Len(seq) : seq[i] = x})

Happened(step) == \E i \in 1..Len(steps) : steps[i] = step

\* where the first newline of a text is, looking from position i on
RECURSIVE NewlineFrom(_, _)
NewlineFrom(text, i) == IF Chr(text, i) = "\n" THEN i ELSE NewlineFrom(text, i + 1)

\* the lines of a text each of whose lines ends with a newline
RECURSIVE Lines(_)
Lines(text) ==
    IF text = "" THEN <<>>
    ELSE LET n == NewlineFrom(text, 1)
         IN  <<SubSeq(text, 1, n - 1)>> \o Lines(SubSeq(text, n + 1, Len(text)))

\* a line of the tree listing: how many continuation groups come before
\* the connector, and the name after it
RECURSIVE LineDepth(_)
LineDepth(line) ==
    IF SubSeq(line, 1, 4) \in {PIPE, BLANK}
    THEN 1 + LineDepth(SubSeq(line, 5, Len(line)))
    ELSE 0

RECURSIVE LineItem(_)
LineItem(line) ==
    IF SubSeq(line, 1, 4) \in {PIPE, BLANK}
    THEN LineItem(SubSeq(line, 5, Len(line)))
    ELSE SubSeq(line, 5, Len(line))

\* the path, relative to the root, that the i-th line of a listing shows:
\* its name beneath the path of the nearest line above that is one level up
RECURSIVE LinePath(_, _)
LinePath(lines, i) ==
    IF LineDepth(lines[i]) = 0 THEN LineItem(lines[i])
    ELSE LET up == CHOOSE j \in 1..(i - 1) :
                     /\ LineDepth(lines[j]) = LineDepth(lines[i]) - 1
                     /\ \A k \in (j + 1)..(i - 1) :
                           LineDepth(lines[k]) >= LineDepth(lines[i])
         IN  join(LinePath(lines, up), LineItem(lines[i]))

ListedPaths(text) ==
    LET lines == Lines(text) IN {LinePath(lines, i) : i \in 1..Len(lines)}

ListedItems(text) ==
    LET lines == Lines(text) IN {LineItem(lines[i]) : i \in 1..Len(lines)}

\* the listing kept in output_parts once render_tree has run
file_tree == output_parts[2]

EntryPath(e) == join(e.dir, e.name)

\* the entry lies, at any depth, beneath a directory with this name
Beneath(e, name) ==
    \E i \in 1..Len(fs) :
        /\ fs[i].kind = "dir"
        /\ fs[i].name = name
        /\ \/ e.dir = EntryPath(fs[i])
           \/ startswith(e.dir, EntryPath(fs[i]) \o "/")

FileEntries == {fs[i] : i \in {j \in 1..Len(fs) : fs[j].kind = "file"}}
Entries == {fs[i] : i \in 1..Len(fs)}

-----------------------------------------------------------------------------
(* Properties. *)

\* C1: on every way out of extract_repo_contents (return, clone failure,
\* any other exception) the temporary directory has been removed by exactly
\* one rmtree and is not on disk; it is never on disk outside the call.
C1_WorkspaceRemoved ==
    /\ pc \in {"join", "return", "raise"} => ~temp_exists /\ rm_calls = 1
    /\ pc \in {"idle", "extract", "except_dialog"} => ~temp_exists
    /\ pc \in {"clone", "tree", "enumerate", "format", "finally"} =>
          temp_exists /\ rm_calls = 0

\* an exception raised while rendering the tree has left the call
C1_Witness ==
    /\ pc = "raise"
    /\ exc.type = "MemoryError"
    /\ Happened("clone")
    /\ rm_calls = 1
    /\ ~temp_exists

\* what the specification says get_all_files leaves out
SpecExcluded(name) ==
    \/ lower(name) = ".env"
    \/ startswith(lower(name), "readme.md")
    \/ startswith(lower(name), "requirements.txt")
    \/ startswith(lower(name), ".")

C3_TreeOmits ==
    pc = "enumerate" =>
        /\ ".git" \notin ListedItems(file_tree)
        /\ \A e \in Entries :
              (\/ e.name = ".git"
               \/ e.name = ".env" /\ e.kind = "file"
               \/ Beneath(e, ".git"))
              => relpath(EntryPath(e), TempDir) \notin ListedPaths(file_tree)
        /\ \A p \in ListedPaths(file_tree) :
              \E e \in Entries : relpath(EntryPath(e), TempDir) = p

\* a .git directory and a file .env, both below the top level, and a
\* listing that shows the directory they are in
C3_Witness ==
    /\ pc = "enumerate"
    /\ \E e \in Entries : e.name = ".git" /\ e.dir # TempDir
    /\ \E e \in Entries : e.name = ".env" /\ e.kind = "file" /\ e.dir # TempDir
    /\ file_tree # ""

\* C4: when git clone exits non-zero the call goes from the clone to the
\* finally clause and raises: no tree is rendered, no file enumerated or
\* formatted, no part produced, nothing returned; on_extract then replaces
\* the text area with a message that contains "Error cloning repository".
C4_CloneFailure ==
    clone_rc = "nonzero" =>
        /\ pc \in {"finally", "raise", "except_dialog"}
        /\ exc.raised
        /\ output_parts = <<>> /\ all_files = <<>> /\ reads = <<>>
        /\ final_output = ""
        /\ ~Happened("tree") /\ ~Happened("enumerate") /\ ~Happened("format")
        /\ ~Happened("join")
        /\ pc = "except_dialog" =>
              /\ Contains(text_output, "Error cloning repository")
              /\ ~Contains(text_output, Placeholder)
              /\ ~temp_exists

C4_Witness ==
    /\ clone_rc = "nonzero"
    /\ pc = "except_dialog"
    /\ Contains(text_output, "Error cloning repository")

\* C5: Extract with the entry empty or all whitespace attempts nothing: no
\* temporary directory, no clone, the text area as it was, and the error
\* dialog "Please enter a valid GitHub repository URL.".
C5_EmptyUrl ==
    [][ on_extract /\ Blank(entry_repo) =>
          /\ pc' = "idle"
          /\ ~temp_exists'
          /\ clone_rc' = "none" /\ steps' = <<>>
          /\ text_output' = text_output
          /\ dialog' = showerror("Error", "Please enter a valid GitHub repository URL.")
      ]_vars

\* the dialog is up over a text area that still holds what was typed, the
\* entry holding whitespace only
C5_Witness ==
    /\ entry_repo = " \t"
    /\ dialog = showerror("Error", "Please enter a valid GitHub repository URL.")
    /\ text_output = "X"
    /\ pc = "idle"
    /\ ~temp_exists

\* the block of the i-th enumerated file, its content being given
Block(i, content) ==
    LET R == relpath(all_files[i], TempDir)
    IN  "<" \o R \o ">\n" \o content \o "\n</" \o R \o ">"

\* the blocks made so far follow the three parts of the tree, one for each
\* file read, in the order of all_files; no read has raised; and once the
\* loop is over every enumerated file has its block
BlocksWith(ContentOf(_)) ==
    /\ Happened("enumerate") /\ ~exc.raised =>
          /\ Len(reads) = idx
          /\ Len(output_parts) = 3 + idx
          /\ \A i \in 1..idx : output_parts[3 + i] = Block(i, ContentOf(reads[i]))
    /\ pc \in {"finally", "join", "return"} /\ ~exc.raised => idx = Len(all_files)
    /\ pc = "format" => ~exc.raised

SpecContent(rd) == IF rd.ok THEN rd.text ELSE rd.msg
PrefixedContent(rd) == IF rd.ok THEN rd.text ELSE "Error reading file: " \o rd.msg

\* C6 as it is written: the block of a file whose read fails holds the
\* exception message as its content.
C6_AsWritten == BlocksWith(SpecContent)

\* C6, amended: format_file_content never raises on a read failure; the
\* block of the file at relative path R is "<R>\nC\n</R>" with C the text
\* of the file when the read succeeds ("hello" at src/a.txt gives
\* "<src/a.txt>\nhello\n</src/a.txt>") and "Error reading file: " followed
\* by the exception message when it fails; extraction goes on and every
\* enumerated file gets exactly one block.
C6_Formatter ==
    /\ BlocksWith(PrefixedContent)
    /\ \A i \in 1..idx :
          all_files[i] = "/tmp/tmpx/src/a.txt" /\ reads[i] = ReadOk("hello")
          => output_parts[3 + i] = "<src/a.txt>\nhello\n</src/a.txt>"

\* a call that got to its return after one read failed and a later one
\* succeeded
C6_Witness ==
    /\ pc = "return"
    /\ \E i \in 1..Len(reads) : \E j \in (i + 1)..Len(reads) :
          ~reads[i].ok /\ reads[j].ok
    /\ Len(output_parts) = 3 + Len(all_files)

\* C7: Copy puts exactly the text of the text area on the clipboard, shows
\* the confirmation dialog, and changes nothing else.
C7_Copy ==
    [][ on_copy =>
          /\ clipboard' = text_output
          /\ dialog' = showinfo("Copied", "Text has been copied to the clipboard!")
          /\ text_output' = text_output
          /\ pc' = pc
      ]_vars

\* on_extract is between root.update() and the end of its try statement
Processing ==
    pc \in {"extract", "clone", "tree", "enumerate", "format", "finally", "join",
            "return", "raise"}

\* C8: Extract with a URL in the entry (not empty once stripped, as line
\* 111 reads it) leads from Idle to Processing with only the placeholder
\* in the text area, and nothing else does; the placeholder stays for as
\* long as Processing lasts; Processing ends in exactly one of Done (the
\* text area holds the result of the call) and Failed (it holds "An error
\* occurred:" and the message, and the error dialog is up), never with the
\* placeholder left; Failed ends in Idle; Clear empties the text area and
\* leaves the window Idle.
C8_StateMachine ==
    /\ [](Processing => text_output = "Processing repository. Please wait...\n")
    /\ [][ on_extract /\ ~Blank(entry_repo) =>
             Processing' /\ text_output' = "Processing repository. Please wait...\n"
         ]_vars
    /\ [][ ~Processing /\ Processing' => on_extract /\ pc = "idle" ]_vars
    /\ [][ Processing /\ ~Processing' =>
             /\ text_output' # "Processing repository. Please wait...\n"
             /\ \/ /\ pc = "return" /\ pc' = "idle"
                   /\ text_output' = final_output
                   /\ dialog' = NoDialog
                \/ /\ pc = "raise" /\ pc' = "except_dialog"
                   /\ text_output' = "An error occurred:\n" \o exc.msg
                   /\ dialog' = showerror("Error", "An error occurred: " \o exc.msg)
         ]_vars
    /\ [][ pc = "except_dialog" /\ pc' # pc => pc' = "idle" /\ dialog' = NoDialog ]_vars
    /\ [][ on_clear => text_output' = "" /\ pc' = "idle" /\ dialog' = NoDialog ]_vars

\* the window is Failed after a clone that could not run
C8_Witness ==
    /\ pc = "except_dialog"
    /\ exc.type = "FileNotFoundError"
    /\ text_output = "An error occurred:\n[Errno 2] No such file or directory: 'git'"
    /\ dialog.kind = "error"

RECURSIVE Formats(_)
Formats(n) == IF n = 0 THEN <<>> ELSE <<"format">> \o Formats(n - 1)

\* C9 as it is written: a call that returns has joined the parts before
\* removing the temporary directory.
C9_AsWritten ==
    pc = "return" =>
        steps = <<"mkdtemp", "clone", "tree", "enumerate">>
                \o Formats(Len(all_files)) \o <<"join", "rmtree">>

\* C9, amended: a call that returns has, in this order, made the temporary
\* directory, cloned into it, rendered the tree, enumerated the files,
\* formatted each file, removed the directory and then joined the parts
\* with newlines; no file is read once the directory is removed.
C9_StepOrder ==
    /\ pc = "return" =>
          /\ steps = <<"mkdtemp", "clone", "tree", "enumerate">>
                     \o Formats(Len(all_files)) \o <<"rmtree", "join">>
          /\ final_output = Join("\n", output_parts)
    /\ \A i \in 1..Len(steps) : \A j \in (i + 1)..Len(steps) :
          steps[i] = "rmtree" => steps[j] # "format"
    /\ pc = "format" /\ idx < Len(all_files) => temp_exists

\* a call that returns after formatting a file
C9_Witness ==
    /\ pc = "return"
    /\ Len(all_files) >= 1
    /\ steps[Len(steps)] = "join"
    /\ ~temp_exists

\* C10: when both walks are done, every file get_all_files returned has a
\* line in the listing that build_file_tree made of the same directory.
C10_TreeShowsEveryFile ==
    pc = "format" /\ idx = 0 =>
        \A i \in 1..Len(all_files) :
            relpath(all_files[i], TempDir) \in ListedPaths(file_tree)

=============================================================================
